---------------------------- MODULE Spec2Model ----------------------------
(***************************************************************************)
(* Redraw scheduling and frame production of layershell-egui-cpu.          *)
(*                                                                         *)
(* State: the fields of WgpuLayerShellState (src/src/layer_shell/mod.rs)   *)
(* and of egui_state::State (src/src/egui_state.rs) that the scheduling    *)
(* reads or writes, the position of the single-threaded event loop (pc),   *)
(* the locals of draw() while it runs, and the requests draw() has issued  *)
(* on the surface.  Instants and durations are natural numbers of ticks.   *)
(* An Option is a sequence of length 0 (None) or 1 (Some).                 *)
(***************************************************************************)
EXTENDS Integers, Sequences, FiniteSets, TLC

\* ------------------------------------------------------------------ bounds
\* Last instant the clock reaches.
MaxTime == 3
\* Largest delay a repaint request carries.
MaxDelay == 2
\* Number of input events the adapters push in one run.
MaxPushes == 3
\* Number of repaint requests made from an asynchronous callback context.
MaxAsync == 1

\* ------------------------------------------------------- program constants
\* Significand width of f32 (set_size stores `width as f32`).
F32_MANTISSA_DIGITS == 24
\* i32::MAX (get_size casts `ceil() as i32`, which saturates).
I32_MAX == 2147483647
\* Bytes per Argb8888 pixel (stride is `w * 4`).
BYTES_PER_PIXEL == 4

\* (width, height) pairs a configure notification carries (both u32): the
\* spec's 300x200 scenario, a small surface, and a width above 2^24, the
\* first u32 that f32 cannot hold.  Zero sizes and widths whose stride
\* `w * 4` leaves i32 are not drawn from.
Sizes == {<<300, 200>>, <<2, 1>>, <<16777217, 1>>}

None == << >>
Some(x) == <<x>>

VARIABLES
    pc,                 \* position of the event loop / of draw()
    now,                \* Instant::now()
    has_frame_callback, \* WgpuLayerShellState.has_frame_callback
    is_configured,      \* WgpuLayerShellState.is_configured
    exit,               \* WgpuLayerShellState.exit
    draw_request,       \* *WgpuLayerShellState.draw_request : Option<Instant>
    events,             \* State.input.events
    screen_rect,        \* State.input.screen_rect : Option<(w, h)> as f32
    size,               \* State.size : Option<(w, h)> as f32
    raw_input,          \* process_events' raw_input, handed to the logic pass
    wh,                 \* draw's (w, h) : Option<(i32, i32)>
    buffer,             \* draw's buffer : Option<[width, height, stride, len]>
    ops,                \* what draw() has done with buffer and surface, in order
    pushed,             \* history: number of events pushed so far
    delivered,          \* history: events handed to logic passes, in order
    pass_request,       \* history: last request issued by the running logic pass
    draws_since_grant,  \* history: draws entered since permission was granted
    configured,         \* history: (width, height) of the last configure, as u32
    closed_seen,        \* history: closed() has been delivered
    callback_pending,   \* compositor: a requested frame callback is not yet delivered
    deadline,           \* event loop: instant its blocked wait times out, if any
    async               \* history: the latest asynchronous repaint request

vars == <<pc, now, has_frame_callback, is_configured, exit, draw_request,
          events, screen_rect, size, raw_input, wh, buffer, ops, pushed,
          delivered, pass_request, draws_since_grant, configured, closed_seen,
          callback_pending, deadline, async>>

\* Variables grouped by what leaves them alone.
shell == <<has_frame_callback, is_configured, exit, draw_request>>
input == <<events, screen_rect, size>>
locals == <<raw_input, wh, buffer, ops>>
history == <<pushed, delivered, pass_request, draws_since_grant, configured,
             closed_seen>>
\* What lies outside the single-threaded core: the compositor's pending
\* callback, the loop's wait, the asynchronous callback context.
outside == <<callback_pending, deadline, async>>

\* ------------------------------------------------------------ conversions
RECURSIVE BitLen(_)
BitLen(n) == IF n = 0 THEN 0 ELSE 1 + BitLen(n \div 2)

RECURSIVE Pow2(_)
Pow2(k) == IF k = 0 THEN 1 ELSE 2 * Pow2(k - 1)

\* `n as f32` for a u32 n: the nearest value with a 24-bit significand,
\* ties to even.
u32_as_f32(n) ==
    LET bl == BitLen(n) IN
    IF bl <= F32_MANTISSA_DIGITS THEN n
    ELSE LET ulp == Pow2(bl - F32_MANTISSA_DIGITS)
             q == n \div ulp
             r == n % ulp
             half == ulp \div 2
             up == r > half \/ (r = half /\ q % 2 = 1)
         IN (IF up THEN q + 1 ELSE q) * ulp

\* `x.ceil() as i32` for an integral, non-negative f32 x: saturating.
f32_ceil_as_i32(x) == IF x > I32_MAX THEN I32_MAX ELSE x

\* ------------------------------------------------------------- pure readers
\* Mutant: the subtraction does not saturate.
duration_since_signed(instant, earlier) == instant - earlier

\* Instant::duration_since: saturates to zero when `earlier` is later.
duration_since(instant, earlier) ==
    IF instant >= earlier THEN instant - earlier ELSE 0

\* Mutant: the permission check is dropped.
should_draw_ungated ==
    IF events # << >> THEN TRUE
    ELSE IF draw_request # None THEN draw_request[1] <= now
    ELSE FALSE

\* Mutant: a repaint is due only strictly after its time.
should_draw_strict ==
    IF ~has_frame_callback THEN FALSE
    ELSE IF events # << >> THEN TRUE
    ELSE IF draw_request # None THEN draw_request[1] < now
    ELSE FALSE

\* Mutant: no frame is admitted before the first configure.
should_draw_needs_configure ==
    IF ~has_frame_callback \/ ~is_configured THEN FALSE
    ELSE IF events # << >> THEN TRUE
    ELSE IF draw_request # None THEN draw_request[1] <= now
    ELSE FALSE

should_draw ==
    IF ~has_frame_callback THEN FALSE
    ELSE IF events # << >> THEN TRUE
    ELSE IF draw_request # None THEN draw_request[1] <= now
    ELSE FALSE

\* Mutant: the wait is bounded by the pending time without the permission.
get_timeout_ignores_permission ==
    IF draw_request # None
    THEN Some(duration_since(draw_request[1], now))
    ELSE None

\* Mutant: the wait is never bounded.
get_timeout_unbounded == None

get_timeout ==
    IF draw_request # None
    THEN IF has_frame_callback
         THEN Some(duration_since(draw_request[1], now))
         ELSE None
    ELSE None

\* State::get_size: None when size is unset (the unwrap panics).
get_size ==
    IF size = None THEN None
    ELSE Some(<<f32_ceil_as_i32(size[1][1]), f32_ceil_as_i32(size[1][2])>>)

\* --------------------------------------------------------------- handlers
\* Mutant: a new geometry drops the pending events.
set_size_clears_events(width, height) ==
    LET rect == <<u32_as_f32(width), u32_as_f32(height)>> IN
    /\ size' = Some(rect)
    /\ screen_rect' = Some(rect)
    /\ events' = << >>

\* State::set_size
set_size(width, height) ==
    LET rect == <<u32_as_f32(width), u32_as_f32(height)>> IN
    /\ size' = Some(rect)
    /\ screen_rect' = Some(rect)
    /\ UNCHANGED events

\* Mutant: every configure seeds the permission and the scheduler.
configure_always_seeds(width, height) ==
    /\ is_configured' = TRUE
    /\ has_frame_callback' = TRUE
    /\ draw_request' = Some(now)
    /\ set_size(width, height)
    /\ UNCHANGED exit

\* Mutant: the configured size is not stored.
configure_without_size(width, height) ==
    /\ IF ~is_configured
       THEN /\ is_configured' = TRUE
            /\ has_frame_callback' = TRUE
            /\ draw_request' = Some(now)
       ELSE UNCHANGED <<is_configured, has_frame_callback, draw_request>>
    /\ UNCHANGED <<events, screen_rect, size, exit>>

\* LayerShellHandler::configure
configure(width, height) ==
    /\ IF ~is_configured
       THEN /\ is_configured' = TRUE
            /\ has_frame_callback' = TRUE
            /\ draw_request' = Some(now)
       ELSE UNCHANGED <<is_configured, has_frame_callback, draw_request>>
    /\ set_size(width, height)
    /\ UNCHANGED exit

\* CompositorHandler::frame
frame ==
    /\ has_frame_callback' = TRUE
    /\ UNCHANGED <<is_configured, exit, draw_request>>

\* Mutant: the exit flag is not set.
closed_without_flag ==
    UNCHANGED <<exit, has_frame_callback, is_configured, draw_request>>

\* LayerShellHandler::closed
closed ==
    /\ exit' = TRUE
    /\ UNCHANGED <<has_frame_callback, is_configured, draw_request>>

\* State::push_event
push_event(e) ==
    /\ events' = Append(events, e)
    /\ UNCHANGED <<screen_rect, size>>

\* Mutant: a request is merged with the pending one, the sooner time kept.
request_repaint_soonest(delay) ==
    /\ draw_request' =
         IF draw_request # None /\ draw_request[1] < now + delay
         THEN draw_request ELSE Some(now + delay)
    /\ UNCHANGED <<has_frame_callback, is_configured, exit>>

\* The closure given to set_request_repaint_callback.
request_repaint(delay) ==
    /\ draw_request' = Some(now + delay)
    /\ UNCHANGED <<has_frame_callback, is_configured, exit>>

\* ------------------------------------- history of asynchronous requests
\* `async` is None or Some of a record about the latest asynchronous request:
\* whether it was written after the clear of a draw() that is still running
\* and, for as long as that draw() runs, its time and whether a later write
\* replaced it; whether a logic pass has started since; and how many
\* asynchronous requests there were.
AfterClear ==
    pc \in {"process_events", "run", "get_size", "create_buffer", "attach",
            "fill", "tessellate", "render", "damage", "set_size", "frame",
            "commit"}

AsyncNoted(t) ==
    Some([time |-> IF AfterClear THEN t ELSE 0, after_clear |-> AfterClear,
          overwritten |-> FALSE, pass_started |-> FALSE,
          n |-> IF async = None THEN 1 ELSE async[1].n + 1])

AsyncOverwritten ==
    IF async = None THEN None
    ELSE IF ~async[1].after_clear THEN async
    ELSE Some([async[1] EXCEPT !.overwritten = TRUE])

AsyncPassStarted ==
    IF async = None THEN None
    ELSE Some([async[1] EXCEPT !.pass_started = TRUE])

AsyncDrawReturned ==
    IF async = None THEN None
    ELSE Some([async[1] EXCEPT !.after_clear = FALSE, !.overwritten = FALSE,
                               !.time = 0])

\* ------------------------------------------------------ steps of draw()
\* Mutant: the permission is not consumed.
draw_clear_keeps_permission ==
    /\ draw_request' = None
    /\ UNCHANGED <<has_frame_callback, is_configured, exit>>

\* Mutant: the scheduler is not cleared.
draw_clear_keeps_request ==
    /\ has_frame_callback' = FALSE
    /\ UNCHANGED <<draw_request, is_configured, exit>>

\* draw, lines 180-181: clear the scheduler and consume the permission.
draw_clear ==
    /\ draw_request' = None
    /\ has_frame_callback' = FALSE
    /\ UNCHANGED <<is_configured, exit>>

\* No raw input is held outside a logic pass.
NoInput == [events |-> << >>, screen_rect |-> None, time |-> None]

\* Mutant: the events are cloned, not taken.
process_events_clone ==
    /\ raw_input' = [events |-> events, screen_rect |-> screen_rect,
                     time |-> Some(now)]
    /\ screen_rect' = None
    /\ UNCHANGED <<events, size>>

\* Mutant: the take leaves the screen rectangle in the accumulator.
process_events_take_keeps_rect ==
    /\ raw_input' = [events |-> events, screen_rect |-> screen_rect,
                     time |-> Some(now)]
    /\ events' = << >>
    /\ UNCHANGED <<screen_rect, size>>

\* State::process_events up to the call of Context::run: RawInput::take
\* moves the events and the screen rectangle out of the accumulator.
process_events_take ==
    /\ raw_input' = [events |-> events, screen_rect |-> screen_rect,
                     time |-> Some(now)]
    /\ events' = << >>
    /\ screen_rect' = None
    /\ UNCHANGED size

\* draw, lines 188-196: SlotPool::create_buffer(w, h, w * 4, Argb8888).
create_buffer(w, h) ==
    [width |-> w, height |-> h, stride |-> w * BYTES_PER_PIXEL,
     len |-> h * (w * BYTES_PER_PIXEL)]

\* One thing draw() does with the buffer or the surface, appended in order.
issue(op) == ops' = Append(ops, op)

DrawClear ==
    /\ pc = "clear"
    /\ draw_clear
    /\ pc' = "process_events"
    /\ UNCHANGED <<now, input, locals, history>>
    /\ UNCHANGED outside

ProcessEventsTake ==
    /\ pc = "process_events"
    /\ process_events_take
    /\ delivered' = delivered \o raw_input'.events
    /\ pc' = "run"
    /\ UNCHANGED <<now, shell, wh, buffer, ops, pushed, pass_request,
                   draws_since_grant, configured, closed_seen>>
    /\ async' = AsyncPassStarted
    /\ UNCHANGED <<callback_pending, deadline>>

\* The logic pass asks for a repaint, any number of times per pass: the
\* callback runs synchronously inside Context::run, the only place this
\* design triggers it from.
RunRequestRepaint(delay) ==
    /\ pc = "run"
    /\ request_repaint(delay)
    /\ pass_request' = Some(now + delay)
    /\ UNCHANGED <<pc, now, input, locals, pushed, delivered,
                   draws_since_grant, configured, closed_seen>>
    /\ async' = AsyncOverwritten
    /\ UNCHANGED <<callback_pending, deadline>>

\* Mutant: the pass drops what was pushed while it ran.
RunReturnDropsPushed ==
    /\ pc = "run"
    /\ pc' = "get_size"
    /\ events' = << >>
    /\ UNCHANGED <<now, shell, screen_rect, size, locals, history>>
    /\ UNCHANGED outside

\* Context::run returns the full output.
RunReturn ==
    /\ pc = "run"
    /\ pc' = "get_size"
    /\ UNCHANGED <<now, shell, input, locals, history>>
    /\ UNCHANGED outside

\* draw, line 187; the unwrap in get_size panics when no size is stored.
DrawGetSize ==
    /\ pc = "get_size"
    /\ get_size # None
    /\ wh' = get_size
    /\ pc' = "create_buffer"
    /\ UNCHANGED <<now, shell, input, raw_input, buffer, ops, history>>
    /\ UNCHANGED outside

DrawGetSizePanic ==
    /\ pc = "get_size"
    /\ get_size = None
    /\ pc' = "panic"
    /\ UNCHANGED <<now, shell, input, locals, history>>
    /\ UNCHANGED outside

DrawCreateBuffer ==
    /\ pc = "create_buffer"
    /\ buffer' = Some(create_buffer(wh[1][1], wh[1][2]))
    /\ pc' = "attach"
    /\ UNCHANGED <<now, shell, input, raw_input, wh, ops, history>>
    /\ UNCHANGED outside

\* draw, lines 197-199
DrawAttach ==
    /\ pc = "attach"
    /\ issue(<<"attach", buffer[1].width, buffer[1].height>>)
    /\ pc' = "fill"
    /\ UNCHANGED <<now, shell, input, raw_input, wh, buffer, history>>
    /\ UNCHANGED outside

\* Mutant: the buffer is not zeroed.
DrawFillSkipped ==
    /\ pc = "fill"
    /\ pc' = "tessellate"
    /\ UNCHANGED <<now, shell, input, locals, history>>
    /\ UNCHANGED outside

\* draw, line 202
DrawFill ==
    /\ pc = "fill"
    /\ issue(<<"fill">>)
    /\ pc' = "tessellate"
    /\ UNCHANGED <<now, shell, input, raw_input, wh, buffer, history>>
    /\ UNCHANGED outside

\* draw, lines 204-207 call State::draw, which first tessellates ...
DrawTessellate ==
    /\ pc = "tessellate"
    /\ issue(<<"tessellate">>)
    /\ pc' = "render"
    /\ UNCHANGED <<now, shell, input, raw_input, wh, buffer, history>>
    /\ UNCHANGED outside

\* ... and then rasterizes into the buffer.
DrawRender ==
    /\ pc = "render"
    /\ issue(<<"render", wh[1][1], wh[1][2]>>)
    /\ pc' = "damage"
    /\ UNCHANGED <<now, shell, input, raw_input, wh, buffer, history>>
    /\ UNCHANGED outside

\* draw, line 210
DrawDamage ==
    /\ pc = "damage"
    /\ issue(<<"damage", 0, 0, wh[1][1], wh[1][2]>>)
    /\ pc' = "set_size"
    /\ UNCHANGED <<now, shell, input, raw_input, wh, buffer, history>>
    /\ UNCHANGED outside

\* draw, line 213
DrawSetSize ==
    /\ pc = "set_size"
    /\ issue(<<"set_size", wh[1][1], wh[1][2]>>)
    /\ pc' = "frame"
    /\ UNCHANGED <<now, shell, input, raw_input, wh, buffer, history>>
    /\ UNCHANGED outside

\* Mutant: the next frame callback is not requested.
DrawFrameRequestMissing ==
    /\ pc = "frame"
    /\ pc' = "commit"
    /\ UNCHANGED <<now, shell, input, locals, history>>
    /\ UNCHANGED outside

\* draw, lines 215-217
DrawFrameRequest ==
    /\ pc = "frame"
    /\ issue(<<"frame">>)
    /\ pc' = "commit"
    /\ UNCHANGED <<now, shell, input, raw_input, wh, buffer, history>>
    /\ callback_pending' = TRUE
    /\ UNCHANGED <<deadline, async>>

\* Mutant: the scheduler is cleared when the frame is committed.
DrawCommitClears ==
    /\ pc = "commit"
    /\ issue(<<"commit">>)
    /\ pc' = "done"
    /\ draw_request' = None
    /\ UNCHANGED <<now, has_frame_callback, is_configured, exit, input,
                   raw_input, wh, buffer, history, outside>>

\* draw, line 219; draw() returns.
DrawCommit ==
    /\ pc = "commit"
    /\ issue(<<"commit">>)
    /\ pc' = "done"
    /\ UNCHANGED <<now, shell, input, raw_input, wh, buffer, history>>
    /\ UNCHANGED outside

\* -------------------------------------------- notifications (dispatch)
\* Handlers run only while the loop dispatches (pc = "idle"), in any order
\* and any number of times: a frame callback may arrive although none was
\* requested, and notifications still arrive after closed().
Configure(width, height) ==
    /\ pc = "idle"
    /\ configure(width, height)
    /\ configured' = Some(<<width, height>>)
    /\ draws_since_grant' = IF ~is_configured THEN 0 ELSE draws_since_grant
    /\ UNCHANGED <<pc, now, locals, pushed, delivered, pass_request,
                   closed_seen>>
    /\ async' = IF ~is_configured THEN AsyncOverwritten ELSE async
    /\ UNCHANGED <<callback_pending, deadline>>

Frame ==
    /\ pc = "idle"
    /\ frame
    /\ draws_since_grant' = 0
    /\ UNCHANGED <<pc, now, input, locals, pushed, delivered, pass_request,
                   configured, closed_seen>>
    /\ callback_pending' = FALSE
    /\ UNCHANGED <<deadline, async>>

Closed ==
    /\ pc = "idle"
    /\ closed
    /\ closed_seen' = TRUE
    /\ UNCHANGED <<pc, now, input, locals, pushed, delivered, pass_request,
                   draws_since_grant, configured>>
    /\ UNCHANGED outside

\* A pointer or keyboard adapter pushes the next event.
PushEvent ==
    /\ pc = "idle"
    /\ pushed < MaxPushes
    /\ push_event(pushed + 1)
    /\ pushed' = pushed + 1
    /\ UNCHANGED <<pc, now, shell, locals, delivered, pass_request,
                   draws_since_grant, configured, closed_seen>>
    /\ UNCHANGED outside

\* ------------------------------------------------------- the event loop
\* The loop asks should_draw() once per iteration and runs draw() if it
\* admits a frame; it stops drawing once the exit flag is set.
LoopDraw ==
    /\ pc = "idle"
    /\ ~exit
    /\ should_draw
    /\ pc' = "clear"
    /\ draws_since_grant' =
         IF draws_since_grant < 2 THEN draws_since_grant + 1
         ELSE draws_since_grant
    /\ UNCHANGED <<now, shell, input, locals, pushed, delivered,
                   pass_request, configured, closed_seen>>
    /\ UNCHANGED outside

\* draw() has returned: its locals are dropped and the loop dispatches again.
LoopNext ==
    /\ pc = "done"
    /\ pc' = "idle"
    /\ raw_input' = NoInput
    /\ wh' = None
    /\ buffer' = None
    /\ ops' = << >>
    /\ pass_request' = None
    /\ UNCHANGED <<now, shell, input, pushed, delivered, draws_since_grant,
                   configured, closed_seen>>
    /\ async' = AsyncDrawReturned
    /\ UNCHANGED <<callback_pending, deadline>>

\* Time passes, at any point of the loop or of draw().
Tick ==
    /\ pc # "panic"
    /\ now < MaxTime
    /\ now' = now + 1
    /\ UNCHANGED <<pc, shell, input, locals, history>>
    /\ UNCHANGED outside

Init ==
    /\ pc = "idle"
    /\ now = 0
    /\ has_frame_callback = FALSE
    /\ is_configured = FALSE
    /\ exit = FALSE
    /\ draw_request = None
    /\ events = << >>
    /\ screen_rect = None
    /\ size = None
    /\ raw_input = NoInput
    /\ wh = None
    /\ buffer = None
    /\ ops = << >>
    /\ pushed = 0
    /\ delivered = << >>
    /\ pass_request = None
    /\ draws_since_grant = 0
    /\ configured = None
    /\ closed_seen = FALSE
    /\ callback_pending = FALSE
    /\ deadline = None
    /\ async = None

Next ==
    \/ \E s \in Sizes : Configure(s[1], s[2])
    \/ Frame
    \/ Closed
    \/ PushEvent
    \/ LoopDraw
    \/ DrawClear
    \/ ProcessEventsTake
    \/ \E d \in 0..MaxDelay : RunRequestRepaint(d)
    \/ RunReturn
    \/ DrawGetSize
    \/ DrawGetSizePanic
    \/ DrawCreateBuffer
    \/ DrawAttach
    \/ DrawFill
    \/ DrawTessellate
    \/ DrawRender
    \/ DrawDamage
    \/ DrawSetSize
    \/ DrawFrameRequest
    \/ DrawCommit
    \/ LoopNext
    \/ Tick

Spec == Init /\ [][Next]_vars

\* ------------------------------------ asynchronous repaint requests
\* The repaint callback called from another callback context, at any point
\* of the loop or of draw(): one write of the cell under its lock.
AsyncRequestRepaint(delay) ==
    /\ pc # "panic"
    /\ IF async = None THEN 0 < MaxAsync ELSE async[1].n < MaxAsync
    /\ request_repaint(delay)
    /\ async' = AsyncNoted(now + delay)
    /\ UNCHANGED <<pc, now, input, locals, history, callback_pending,
                   deadline>>

\* The steps of the loop and of draw(), and the notifications that carry
\* no geometry.
CoreStep ==
    \/ Frame
    \/ Closed
    \/ PushEvent
    \/ LoopDraw
    \/ DrawClear
    \/ ProcessEventsTake
    \/ \E d \in 0..MaxDelay : RunRequestRepaint(d)
    \/ RunReturn
    \/ DrawGetSize
    \/ DrawGetSizePanic
    \/ DrawCreateBuffer
    \/ DrawAttach
    \/ DrawFill
    \/ DrawTessellate
    \/ DrawRender
    \/ DrawDamage
    \/ DrawSetSize
    \/ DrawFrameRequest
    \/ DrawCommit
    \/ LoopNext
    \/ Tick

\* The scheduler does not read the geometry: one size is configured here.
OneSize == {<<300, 200>>}

NextAsync ==
    \/ \E s \in OneSize : Configure(s[1], s[2])
    \/ CoreStep
    \/ \E d \in 0..MaxDelay : AsyncRequestRepaint(d)

SpecAsync == Init /\ [][NextAsync]_vars

\* ------------------------------------------- input pushed during draw()
\* An adapter pushes the next event while draw() runs, at any of its steps:
\* the push appends to the accumulator, which the take has left empty.
PushInDraw ==
    /\ pc \notin {"idle", "panic"}
    /\ pushed < MaxPushes
    /\ push_event(pushed + 1)
    /\ pushed' = pushed + 1
    /\ UNCHANGED <<pc, now, shell, locals, delivered, pass_request,
                   draws_since_grant, configured, closed_seen>>
    /\ UNCHANGED outside

NextPush ==
    \/ \E s \in OneSize : Configure(s[1], s[2])
    \/ CoreStep
    \/ PushInDraw

SpecPush == Init /\ [][NextPush]_vars

\* --------------------------------- a compositor that follows the protocol
\* The compositor delivers a frame callback only after a draw() requested
\* one, and once per request.
FrameRequested == callback_pending /\ Frame

NextProtocol ==
    \/ \E s \in Sizes : Configure(s[1], s[2])
    \/ FrameRequested
    \/ Closed
    \/ PushEvent
    \/ LoopDraw
    \/ DrawClear
    \/ ProcessEventsTake
    \/ \E d \in 0..MaxDelay : RunRequestRepaint(d)
    \/ RunReturn
    \/ DrawGetSize
    \/ DrawCreateBuffer
    \/ DrawAttach
    \/ DrawFill
    \/ DrawTessellate
    \/ DrawRender
    \/ DrawDamage
    \/ DrawSetSize
    \/ DrawFrameRequest
    \/ DrawCommit
    \/ LoopNext
    \/ Tick

SpecProtocol == Init /\ [][NextProtocol]_vars

\* ------------------------------------------------ the loop's blocking wait
\* The loop evaluates should_draw() (pc = "idle"); when no frame is admitted
\* it blocks in dispatch (pc = "blocked") for at most get_timeout(), and a
\* notification or the timeout wakes it to evaluate should_draw() again.
LoopBlock ==
    /\ pc = "idle"
    /\ ~exit
    /\ ~should_draw
    /\ pc' = "blocked"
    /\ deadline' = IF get_timeout = None THEN None
                   ELSE Some(now + get_timeout[1])
    /\ UNCHANGED <<now, shell, input, locals, history, callback_pending,
                   async>>

LoopTimeout ==
    /\ pc = "blocked"
    /\ deadline # None
    /\ now >= deadline[1]
    /\ pc' = "idle"
    /\ deadline' = None
    /\ UNCHANGED <<now, shell, input, locals, history, callback_pending,
                   async>>

WakeConfigure(width, height) ==
    /\ pc = "blocked"
    /\ configure(width, height)
    /\ configured' = Some(<<width, height>>)
    /\ draws_since_grant' = IF ~is_configured THEN 0 ELSE draws_since_grant
    /\ pc' = "idle"
    /\ deadline' = None
    /\ UNCHANGED <<now, locals, pushed, delivered, pass_request, closed_seen,
                   callback_pending, async>>

WakeFrame ==
    /\ pc = "blocked"
    /\ callback_pending
    /\ frame
    /\ draws_since_grant' = 0
    /\ callback_pending' = FALSE
    /\ pc' = "idle"
    /\ deadline' = None
    /\ UNCHANGED <<now, input, locals, pushed, delivered, pass_request,
                   configured, closed_seen, async>>

WakeClosed ==
    /\ pc = "blocked"
    /\ closed
    /\ closed_seen' = TRUE
    /\ pc' = "idle"
    /\ deadline' = None
    /\ UNCHANGED <<now, input, locals, pushed, delivered, pass_request,
                   draws_since_grant, configured, callback_pending, async>>

WakePush ==
    /\ pc = "blocked"
    /\ pushed < MaxPushes
    /\ push_event(pushed + 1)
    /\ pushed' = pushed + 1
    /\ pc' = "idle"
    /\ deadline' = None
    /\ UNCHANGED <<now, shell, locals, delivered, pass_request,
                   draws_since_grant, configured, closed_seen,
                   callback_pending, async>>

\* The steps of one draw() after it was entered, up to its return.
DrawStep ==
    \/ DrawClear
    \/ ProcessEventsTake
    \/ RunReturn
    \/ DrawGetSize
    \/ DrawCreateBuffer
    \/ DrawAttach
    \/ DrawFill
    \/ DrawTessellate
    \/ DrawRender
    \/ DrawDamage
    \/ DrawSetSize
    \/ DrawFrameRequest
    \/ DrawCommit
    \/ LoopNext

\* The compositor delivers the requested frame callback.
FrameDelivery == FrameRequested \/ WakeFrame

\* A repaint request of the logic pass for an instant the clock reaches.
RequestInTime(delay) == now + delay <= MaxTime /\ RunRequestRepaint(delay)

NextLive ==
    \/ \E s \in OneSize : Configure(s[1], s[2])
    \/ \E s \in OneSize : WakeConfigure(s[1], s[2])
    \/ FrameDelivery
    \/ Closed
    \/ WakeClosed
    \/ PushEvent
    \/ WakePush
    \/ LoopDraw
    \/ LoopBlock
    \/ LoopTimeout
    \/ DrawStep
    \/ \E d \in 0..MaxDelay : RequestInTime(d)
    \/ Tick

\* The loop and draw() keep running, time advances, and the compositor
\* eventually delivers a requested frame callback.
SpecLive ==
    /\ Init
    /\ [][NextLive]_vars
    /\ WF_vars(LoopDraw)
    /\ WF_vars(LoopBlock)
    /\ WF_vars(LoopTimeout)
    /\ WF_vars(DrawStep)
    /\ WF_vars(Tick)
    /\ WF_vars(FrameDelivery)

\* ================================================================ claims
IsDue == draw_request # None /\ draw_request[1] <= now

Max(a, b) == IF a >= b THEN a ELSE b

\* The events pushed so far, in push order.
Pushed == [i \in 1..pushed |-> i]

\* The requests draw() has issued on the surface, by name, in order.
SurfaceRequests ==
    LET onSurface(o) ==
            o[1] \in {"attach", "damage", "set_size", "frame", "commit"}
        sel == SelectSeq(ops, onSurface)
    IN [i \in 1..Len(sel) |-> sel[i][1]]

FrameProtocol == <<"attach", "damage", "set_size", "frame", "commit">>

IsPrefix(s, t) == Len(s) <= Len(t) /\ SubSeq(t, 1, Len(s)) = s

\* C1: whenever has_frame_callback is false, should_draw() is false, whatever
\* the pending input and whatever the pending repaint time.
C1_NoPermissionNoDraw == ~has_frame_callback => ~should_draw

\* C1 witness: no permission, input pending and a repaint already due.
C1_Witness ==
    /\ pc = "idle"
    /\ ~has_frame_callback
    /\ events # << >>
    /\ IsDue
    /\ ~should_draw

\* C2: draw() is entered only with has_frame_callback true, and at most one
\* draw() is entered between two grants of permission (first configure or
\* frame callback).
C2_DrawNeedsPermission ==
    /\ pc = "clear" => has_frame_callback
    /\ draws_since_grant <= 1

\* C2 witness: a draw is entered after an earlier frame handed events to a
\* logic pass, so permission was consumed and granted again.
C2_Witness ==
    /\ pc = "clear"
    /\ has_frame_callback
    /\ draws_since_grant = 1
    /\ delivered # << >>

\* C3: should_draw() is true exactly when has_frame_callback is true and
\* (input is pending or the scheduler is Pending(t) with t <= now).
C3_ShouldDrawIff ==
    should_draw <=> (has_frame_callback /\ (events # << >> \/ IsDue))

\* C3 witness: permission, no input, a repaint pending for a later time: not
\* admitted yet.
C3_Witness ==
    /\ pc = "idle"
    /\ has_frame_callback
    /\ events = << >>
    /\ draw_request # None
    /\ draw_request[1] > now
    /\ ~should_draw

\* C4: when draw() has returned, has_frame_callback is false and the
\* scheduler holds the last request of that draw's logic pass, or nothing if
\* the pass made none.
C4_AfterDraw ==
    pc = "done" => (~has_frame_callback /\ draw_request = pass_request)

\* C4 witness: draw() has returned and its logic pass had asked for a repaint.
C4_Witness ==
    /\ pc = "done"
    /\ pass_request # None
    /\ draw_request = pass_request

\* C5: get_timeout() is None without permission and None when the scheduler
\* is Idle; with permission and Pending(t) it is Some(max(0, t - now)).
C5_Timeout ==
    /\ ~has_frame_callback => get_timeout = None
    /\ draw_request = None => get_timeout = None
    /\ (has_frame_callback /\ draw_request # None) =>
           get_timeout = Some(Max(0, draw_request[1] - now))

\* C5 witness: permission and a pending time already in the past: zero.
C5_Witness ==
    /\ has_frame_callback
    /\ draw_request # None
    /\ draw_request[1] < now
    /\ get_timeout = Some(0)

\* C6: the batches taken so far followed by the pending events are exactly
\* the events pushed, each once and in push order, and a take leaves the
\* pending list empty.
C6_TakeExactlyOnce ==
    /\ delivered \o events = Pushed
    /\ pc = "run" => events = << >>

\* C6 witness: a second take has returned the two events pushed after the
\* first take, which had returned one.
C6_Witness ==
    /\ pc = "run"
    /\ raw_input.events = <<2, 3>>
    /\ delivered = <<1, 2, 3>>
    /\ events = << >>

\* C7: the first configure sets has_frame_callback and sets the scheduler to
\* Pending(now), so should_draw() is true right after it; every later
\* configure leaves has_frame_callback, the pending time and the pending
\* events as they were.
C7_Configure ==
    [][\A s \in Sizes :
         Configure(s[1], s[2]) =>
           IF ~is_configured
           THEN /\ has_frame_callback'
                /\ draw_request' = Some(now)
                /\ should_draw'
                /\ events' = events
           ELSE /\ has_frame_callback' = has_frame_callback
                /\ draw_request' = draw_request
                /\ events' = events]_vars

\* C7 witness: after a frame consumed the permission and took the screen
\* rectangle, a later configure has stored a rectangle again and the
\* permission is still absent, with input and a repaint pending.
C7_Witness ==
    /\ pc = "idle"
    /\ is_configured
    /\ screen_rect # None
    /\ ~has_frame_callback
    /\ draw_request # None
    /\ events # << >>

\* C8 (as claimed): the buffer draw() acquires has the width, the height,
\* the stride width*4 and the byte length width*height*4 of the most recent
\* configure, and the damaged rectangle and the reported size are the same
\* width and height.
C8_BufferMatchesConfigure ==
    LET cw == configured[1][1]
        ch == configured[1][2]
    IN /\ buffer # None =>
            /\ buffer[1].width = cw
            /\ buffer[1].height = ch
            /\ buffer[1].stride = cw * BYTES_PER_PIXEL
            /\ buffer[1].len = cw * ch * BYTES_PER_PIXEL
       /\ \A i \in 1..Len(ops) :
            /\ ops[i][1] = "damage" => ops[i] = <<"damage", 0, 0, cw, ch>>
            /\ ops[i][1] = "set_size" => ops[i] = <<"set_size", cw, ch>>

\* C9: a frame issues attach, damage, set_size, frame and commit on the
\* surface once each and in that order, commit last.
C9_SurfaceProtocol ==
    /\ IsPrefix(SurfaceRequests, FrameProtocol)
    /\ pc = "done" => SurfaceRequests = FrameProtocol

\* C9 witness: draw() has returned with its commit issued.
C9_Witness ==
    /\ pc = "done"
    /\ Len(ops) > 0
    /\ ops[Len(ops)] = <<"commit">>

\* C10 (as claimed): after closed() the exit flag is set and should_draw()
\* admits no frame.
C10_GateClosedAfterExit == closed_seen => (exit /\ ~should_draw)

\* C10 (amended): after closed() the exit flag is set and stays set, and the
\* loop enters no draw(); should_draw() does not read the flag.
C10_ExitStopsDrawing == closed_seen => (exit /\ pc = "idle")

\* C10 witness: closed() was delivered, the flag is set, and should_draw()
\* still answers true with permission and pending input.
C10_Witness ==
    /\ closed_seen
    /\ exit
    /\ has_frame_callback
    /\ events # << >>
    /\ should_draw
    /\ pc = "idle"

\* C11: before any configure, with no permission, should_draw() is false; it
\* stays false with input pending across every step that is neither a frame
\* callback nor the first configure, and a frame callback arriving with input
\* pending makes it true.
C11_InputWaitsForFrame ==
    /\ ~has_frame_callback /\ ~should_draw
    /\ [][(~is_configured /\ ~has_frame_callback) =>
            /\ (Frame /\ events # << >>) => should_draw'
            /\ (~Frame /\ ~is_configured') => ~should_draw']_vars

\* C11 witness: no configure yet, an event was pushed and a frame callback
\* has arrived: should_draw() is true.
C11_Witness ==
    /\ pc = "idle"
    /\ ~is_configured
    /\ events # << >>
    /\ has_frame_callback
    /\ should_draw

\* A step that writes a request into the cell, from the logic pass or from
\* the asynchronous context.
RequestStep(d) == RunRequestRepaint(d) \/ AsyncRequestRepaint(d)

\* C12: each repaint request leaves the scheduler Pending with its own time,
\* whatever was pending; nothing else changes the scheduler but the first
\* configure and the clear at the start of draw(), and only that clear makes
\* it Idle.
C12_LastRequestWins ==
    [][/\ \A d \in 0..MaxDelay :
            RequestStep(d) => draw_request' = Some(now + d)
       /\ draw_request' # draw_request =>
            \/ \E d \in 0..MaxDelay : RequestStep(d)
            \/ ~is_configured /\ \E s \in OneSize : Configure(s[1], s[2])
            \/ DrawClear
       /\ (draw_request # None /\ draw_request' = None) => DrawClear]_vars

\* C12 witness: the logic pass asked for a time, a later asynchronous request
\* asked for a later time, and the scheduler holds the later time.
C12_Witness ==
    /\ pc = "run"
    /\ pass_request # None
    /\ async # None
    /\ async[1].after_clear
    /\ ~async[1].overwritten
    /\ async[1].time > pass_request[1]
    /\ draw_request = Some(async[1].time)

\* An asynchronous request whose time the cell no longer holds is followed
\* by a logic pass: draw() cleared it and is about to take the input, or the
\* pass has started.
AsyncServed ==
    (async # None /\ draw_request = None) =>
        (async[1].pass_started \/ pc = "process_events")

\* C19 (as claimed): an asynchronous request is either cleared by a draw()
\* whose logic pass starts after it, or, written after the clear, is what the
\* scheduler holds when draw() returns.
C19_AsyncRequestKept ==
    /\ AsyncServed
    /\ (pc = "done" /\ async # None /\ async[1].after_clear) =>
           draw_request = Some(async[1].time)

\* C19 (amended): as claimed, except that a request written after the clear
\* leaves the scheduler Pending when draw() returns, with that request's time
\* unless a later request replaced it.
C19_AsyncRequestNotLost ==
    /\ AsyncServed
    /\ (pc = "done" /\ async # None /\ async[1].after_clear) =>
           /\ draw_request # None
           /\ ~async[1].overwritten => draw_request = Some(async[1].time)

\* C19 witness: draw() has returned; a request written after its clear was
\* replaced by a later request of the logic pass, and the scheduler is
\* Pending with the later one.
C19_Witness ==
    /\ pc = "done"
    /\ async # None
    /\ async[1].after_clear
    /\ async[1].overwritten
    /\ draw_request = pass_request
    /\ draw_request # Some(async[1].time)
    /\ async[1].time < pass_request[1]

\* The rectangle of the most recent configure, as set_size stores it.
ConfiguredRect ==
    Some(<<u32_as_f32(configured[1][1]), u32_as_f32(configured[1][2])>>)

\* draw() is past its take of the input.
AfterTake ==
    pc \in {"run", "get_size", "create_buffer", "attach", "fill",
            "tessellate", "render", "damage", "set_size", "frame", "commit",
            "done"}

\* C13 (as claimed): the batch handed to every logic pass after a configure
\* carries the rectangle of the most recent configure.
C13_BatchCarriesRect ==
    (pc = "run" /\ configured # None) =>
        raw_input.screen_rect = ConfiguredRect

\* C13 (amended): the stored size is the rectangle of the most recent
\* configure in every state; the accumulator's rectangle is that rectangle
\* or unset, is unset after every take, and the batch of a pass carries the
\* rectangle or nothing.
C13_SizePersists ==
    /\ configured # None => size = ConfiguredRect
    /\ screen_rect \in {None, size}
    /\ AfterTake => screen_rect = None
    /\ pc = "run" => raw_input.screen_rect \in {None, size}

\* C13 witness: a second frame with no configure since the first: its batch
\* carries no rectangle, and the stored size is still the configured one.
C13_Witness ==
    /\ pc = "run"
    /\ configured # None
    /\ Len(delivered) > Len(raw_input.events)
    /\ raw_input.screen_rect = None
    /\ size = ConfiguredRect

\* The loop is about to wait: it is between two draws and should_draw()
\* is false.
AboutToWait == pc = "idle" /\ ~should_draw

\* C14 (as claimed): where the loop is about to wait, get_timeout() is None
\* only with the scheduler Idle, no input pending and no permission, and is
\* Some otherwise.
C14_NoneOnlyQuiesced ==
    AboutToWait =>
        (get_timeout = None <=>
            (draw_request = None /\ events = << >> /\ ~has_frame_callback))

\* C14 (amended): where the loop is about to wait, get_timeout() is None
\* exactly when the permission is absent or the scheduler is Idle; with the
\* permission no input is pending there, and a pending time is in the future
\* and bounds the wait by the time left until it.
C14_UnboundedWait ==
    AboutToWait =>
        /\ get_timeout = None <=> (~has_frame_callback \/ draw_request = None)
        /\ has_frame_callback => events = << >>
        /\ (has_frame_callback /\ draw_request # None) =>
               /\ draw_request[1] > now
               /\ get_timeout = Some(draw_request[1] - now)

\* C14 witness: the loop is about to wait without the permission, with input
\* and a repaint pending, and get_timeout() is None.
C14_Witness ==
    /\ AboutToWait
    /\ ~has_frame_callback
    /\ Len(events) = 1
    /\ draw_request # None
    /\ draw_request[1] > now
    /\ get_timeout = None

\* C16: the pending event list changes only by the take inside draw(), which
\* empties it, and by a push, which appends to it; a configure, a frame
\* callback, a closed notification, a repaint request and every other step
\* leave it as it was, so what a skipped frame did not consume stays queued
\* in order.
C16_OnlyTakeRemoves ==
    [][/\ events' # events =>
            \/ ProcessEventsTake /\ events' = << >>
            \/ PushEvent /\ events' = Append(events, pushed + 1)
       /\ ~ProcessEventsTake => IsPrefix(events, events')
       /\ (\E s \in Sizes : Configure(s[1], s[2])) => events' = events
       /\ (Frame \/ Closed \/ DrawClear) => events' = events
       /\ (\E d \in 0..MaxDelay : RequestStep(d)) => events' = events]_vars

\* C16 witness: a frame is skipped for lack of permission while the two
\* events pushed after the last take are queued in order, a configure and an
\* asynchronous repaint request having happened since that take.
C16_Witness ==
    /\ pc = "idle"
    /\ ~should_draw
    /\ delivered = <<1>>
    /\ events = <<2, 3>>
    /\ screen_rect # None
    /\ async # None
    /\ ~async[1].pass_started
    /\ draw_request # None

\* What draw() has done with the buffer and the surface, by name, in order.
OpNames == [i \in 1..Len(ops) |-> ops[i][1]]

\* The order the design lists for the steps after the buffer is acquired.
DesignOrder ==
    <<"fill", "render", "attach", "damage", "set_size", "frame", "commit">>

\* The order of draw() and State::draw.
DrawOrder ==
    <<"attach", "fill", "tessellate", "render", "damage", "set_size",
      "frame", "commit">>

C15_PassInputFixed ==
    [][/\ ProcessEventsTake =>
            (raw_input'.events = events /\ events' = << >>)
       /\ (AfterTake /\ pc # "done") =>
            (raw_input' = raw_input /\ delivered' = delivered)
       /\ PushInDraw =>
            (events' = Append(events, pushed + 1) /\ raw_input' = raw_input)
       /\ delivered' \o events' = [i \in 1..pushed' |-> i]]_vars

\* C15 witness: draw() has returned from its second frame, whose pass was
\* handed event 2; event 3, pushed after the take, is in the accumulator.
C15_Witness ==
    /\ pc = "done"
    /\ raw_input.events = <<2>>
    /\ delivered = <<1, 2>>
    /\ events = <<3>>

\* C18: with frame callbacks delivered only on request, the permission is
\* held only after a configure, with the size stored; a callback is pending
\* only after a configure; and where draw() reads the size, get_size has a
\* size to unwrap and does not panic.
C18_PermissionImpliesGeometry ==
    /\ has_frame_callback => (is_configured /\ size # None)
    /\ callback_pending => (is_configured /\ size # None)
    /\ pc = "get_size" => get_size # None
    /\ pc # "panic"

\* C18 witness: the second draw(), admitted by the frame callback the first
\* one requested, reads the size.
C18_Witness ==
    /\ pc = "get_size"
    /\ ~callback_pending
    /\ delivered = <<1, 2>>
    /\ raw_input.events = <<2>>
    /\ get_size # None

\* A frame is owed: the surface is configured and not closed, and input or
\* a repaint is pending.
Owed ==
    /\ is_configured
    /\ ~exit
    /\ (events # << >> \/ draw_request # None)

\* draw() has been entered and has not yet taken the input.
DrawEntered == pc \in {"clear", "process_events"}

\* C20: whenever a frame is owed, a draw() is eventually entered unless the
\* surface is closed first, and a draw() is entered only with input pending
\* or at or after the pending repaint time.
C20_OwedFrameIsDrawn ==
    /\ Owed ~> (DrawEntered \/ exit)
    /\ [][LoopDraw => (events # << >> \/ IsDue)]_vars

\* C20 witness: the loop is blocked with a deadline for a pending repaint
\* that is not yet due, the permission granted by a delivered frame callback.
C20_Witness ==
    /\ pc = "blocked"
    /\ Owed
    /\ has_frame_callback
    /\ events = << >>
    /\ deadline = draw_request
    /\ deadline[1] > now
    /\ delivered # << >>

====
